---- MODULE Spec2Model ----
(***************************************************************************)
(* Query-time engine of the sufr suffix-array index (libsufr):             *)
(*   SufrFile::read / check / subsample_suffix_array /                     *)
(*   set_suffix_array_mem / suffix_search / extract / locate               *)
(*   (sufr_file.rs)                                                        *)
(*   read_text_length / read_sequence_file / usize_to_bytes /              *)
(*   vec_to_slice_u8 / slice_u8_to_vec   (util.rs)                         *)
(* FileAccess and SufrSearch (file_access.rs, sufr_search.rs) are not part *)
(* of the sources at hand; they are modelled from the written design       *)
(* (sections 4.2 and 4.5) and marked as such in the comments.              *)
(*                                                                         *)
(* Bytes are naturals 0..255 (36 = '$', 65 = 'A', 66 = 'B', 78 = 'N').     *)
(* Text positions, ranks and query numbers are 0-based as in the code;     *)
(* TLA+ sequences are 1-based, hence the "+ 1" when indexing.              *)
(***************************************************************************)
EXTENDS Integers, Sequences, FiniteSets, TLC

VARIABLES
    disk,       \* the file on disk: the ".sufr" index (immutable once
                \* produced), or the sequence file read_sequence_file reads;
                \* for the byte helpers of util.rs, the caller's vector
    cache_dir,  \* $HOME/.sufr : effective max_query_len -> cache file
    sufr,       \* the SufrFile instance (its fields), once read
    pc,         \* the caller: "start" (nothing read), "idle", "panicked"
    ret,        \* what the last call returned (or that it panicked)
    hist        \* history of the set_suffix_array_mem calls and of the
                \* reads of the SA handle (auxiliary)

vars == <<disk, cache_dir, sufr, pc, ret, hist>>

---------------------------------------------------------------------------
(* Bounds of the model *)

\* longest query string submitted
MaxQueryLen == 2
\* largest number of queries in one batch
MaxBatch == 2
\* largest max_query_len a caller asks for
MaxMql == 2
\* largest prefix_len and largest suffix_len of an extract
MaxPrefixLen == 1
MaxSuffixLen == 3
\* largest LCP value stored in an index file that may be damaged
MaxLcp == 2
\* largest number of records in a sequence file, longest record
MaxRecords == 3
MaxRecordLen == 2
\* longest vector handed to vec_to_slice_u8
MaxVecLen == 2

---------------------------------------------------------------------------
(* Program constants *)

\* std::mem::size_of::<usize>()
SIZE_OF_USIZE == 8
\* std::mem::size_of::<T>() for T = u32, the width the tests use
SIZE_OF_T == 4
\* types::OUTFILE_VERSION, the version byte read_text_length accepts
OUTFILE_VERSION == 6
\* types::SENTINEL_CHARACTER, b'$', the byte that ends the text
SENTINEL_CHARACTER == 36

---------------------------------------------------------------------------
(* Small helpers *)

min(a, b) == IF a < b THEN a ELSE b

\* (value >> (i * 8)) as u8
RECURSIVE ShiftedByte(_, _)
ShiftedByte(value, i) ==
    IF i = 0 THEN value % 256 ELSE ShiftedByte(value \div 256, i - 1)

\* text.get(p): the byte at 0-based position p, or -1 for None (past the end)
TextGet(text, p) == IF p >= 0 /\ p < Len(text) THEN text[p + 1] ELSE -1

\* v[lo..hi] of a Rust slice (0-based, half-open) as a sequence
Slice(v, lo, hi) == [k \in 1..(hi - lo) |-> v[lo + k]]

---------------------------------------------------------------------------
(* util.rs: byte-exact serialisation *)

\* usize_to_bytes: the 8 bytes of value, least significant first
usize_to_bytes(value) ==
    [i \in 1..SIZE_OF_USIZE |-> ShiftedByte(value, i - 1)]

\* the little-endian value of the `width` bytes of buffer from offset `at`
from_ne_bytes(buffer, at, width) ==
    LET RECURSIVE Value(_)
        Value(j) == IF j = width THEN 0
                    ELSE buffer[at + j + 1] + 256 * Value(j + 1)
    IN  Value(0)

\* vec_to_slice_u8 with each element's bytes most significant first
vec_to_slice_u8_msb_first(vec, width) ==
    [k \in 1..(Len(vec) * width) |->
        ShiftedByte(vec[((k - 1) \div width) + 1],
                    width - 1 - ((k - 1) % width))]

\* vec_to_slice_u8: the elements' bytes in order, each `width` bytes wide
vec_to_slice_u8(vec, width) ==
    [k \in 1..(Len(vec) * width) |->
        ShiftedByte(vec[((k - 1) \div width) + 1], (k - 1) % width)]

\* slice_u8_to_vec: `len` elements of `width` bytes each read from buffer
slice_u8_to_vec(buffer, len, width) ==
    [k \in 1..len |-> from_ne_bytes(buffer, (k - 1) * width, width)]

---------------------------------------------------------------------------
(* util::read_sequence_file *)

\* push_delimiter that pushes ahead of the first record too
push_delimiter_always(seq, i, sequence_delimiter) ==
    Append(seq, sequence_delimiter)

\* if i > 0 { seq.push(sequence_delimiter) }
push_delimiter(seq, i, sequence_delimiter) ==
    IF i > 0 THEN Append(seq, sequence_delimiter) ELSE seq

\* the while loop over the records from the i-th on (0-based)
RECURSIVE read_sequence_loop(_, _, _, _, _, _)
read_sequence_loop(records, delimiter, i, seq, starts, headers) ==
    IF i >= Len(records)
    THEN [ seq             |-> Append(seq, SENTINEL_CHARACTER),
           start_positions |-> starts,
           headers         |-> headers ]
    ELSE LET delimited == push_delimiter(seq, i, delimiter)
         IN  read_sequence_loop(records, delimiter, i + 1,
                                delimited \o records[i + 1].seq,
                                Append(starts, Len(delimited)),
                                Append(headers, records[i + 1].id))

\* read_sequence_file(filename, sequence_delimiter): the SequenceFileData,
\* or the error of parse_fastx_file, which refuses a file without records
read_sequence_file(file, sequence_delimiter) ==
    IF file.records = <<>>
    THEN [status |-> "Err", value |-> <<>>]
    ELSE [ status |-> "Ok",
           value  |-> read_sequence_loop(file.records, sequence_delimiter,
                                         0, <<>>, <<>>, <<>>) ]

---------------------------------------------------------------------------
(* The index file.  Building it (suffix sorting, LCP) is outside the       *)
(* sources at hand; the operators below produce the files a build writes,  *)
(* following invariants 1-5 of the data model (section 3).                 *)

\* number of equal bytes of text[a..] and text[b..], counted from depth k,
\* never past depth `limit`
RECURSIVE CommonPrefix(_, _, _, _, _)
CommonPrefix(text, a, b, k, limit) ==
    IF k >= limit \/ a + k >= Len(text) \/ b + k >= Len(text)
       \/ text[a + k + 1] # text[b + k + 1]
    THEN k
    ELSE CommonPrefix(text, a, b, k + 1, limit)

\* depth to which a build with cap `cap` compares suffixes (0 = no cap)
SortDepth(text, cap) == IF cap > 0 THEN cap ELSE Len(text)

\* the order of the suffixes at a and b in a build with cap `cap`:
\* unsigned byte order, end of text below any byte; suffixes equal up to
\* the cap stay in text order
SuffixBefore(text, cap, a, b) ==
    LET l == CommonPrefix(text, a, b, 0, SortDepth(text, cap))
    IN  IF l >= SortDepth(text, cap) THEN a < b
        ELSE TextGet(text, a + l) < TextGet(text, b + l)

\* the suffix array of text: rank -> suffix start
BuildSA(text, cap) ==
    LET P == 0..(Len(text) - 1)
    IN  [r \in 1..Len(text) |->
            CHOOSE p \in P :
                Cardinality({q \in P : q # p /\ SuffixBefore(text, cap, q, p)})
                    = r - 1]

\* the LCP array belonging to sa: lcp[0] = 0, lcp[i] = lcp(sa[i-1], sa[i])
BuildLCP(text, cap, sa) ==
    [r \in 1..Len(sa) |->
        IF r = 1 THEN 0
        ELSE CommonPrefix(text, sa[r - 1], sa[r], 0, SortDepth(text, cap))]

\* an index file: header fields, sequence starts (as bytes), text, SA, LCP,
\* headers; mtime is the file's modification time
IndexFile(version, cap, text, starts, headers, sa, lcp) ==
    [ version         |-> version,
      text_len        |-> Len(text),
      num_suffixes    |-> Len(sa),
      max_query_len   |-> cap,
      num_sequences   |-> Len(starts),
      sequence_starts |-> vec_to_slice_u8(starts, SIZE_OF_T),
      text            |-> text,
      sa              |-> sa,
      lcp             |-> lcp,
      headers         |-> headers,
      mtime           |-> 1 ]

\* a correctly built index of version OUTFILE_VERSION
BuiltIndex(cap, text, starts, headers) ==
    IndexFile(OUTFILE_VERSION, cap, text, starts, headers,
              BuildSA(text, cap),
              BuildLCP(text, cap, BuildSA(text, cap)))

\* sa with the entries at ranks r-1 and r (1-based r, r+1) exchanged
SwapRanks(sa, r) ==
    [k \in 1..Len(sa) |->
        IF k = r THEN sa[r + 1] ELSE IF k = r + 1 THEN sa[r] ELSE sa[k]]

\* "AABAB$", one sequence named "1"
TextAABAB == <<65, 65, 66, 65, 66, 36>>
\* "AANAB$": sequences "AA" and "AB" joined by the delimiter 'N'
TextAANAB == <<65, 65, 78, 65, 66, 36>>
\* "$": one empty sequence
TextEmpty == <<36>>
\* "ABA$", one sequence named "1"
TextABA == <<65, 66, 65, 36>>

IndexAABAB == BuiltIndex(0, TextAABAB, <<0>>, <<"1">>)
IndexAANAB == BuiltIndex(0, TextAANAB, <<0, 3>>, <<"ABC", "DEF">>)
IndexEmpty == BuiltIndex(0, TextEmpty, <<0>>, <<"1">>)
\* built with a max_query_len of 2
IndexCapped == BuiltIndex(2, TextAABAB, <<0>>, <<"1">>)
\* a damaged file: two suffixes out of order
IndexBadOrder ==
    [IndexAABAB EXCEPT !.sa = SwapRanks(IndexAABAB.sa, 3)]
\* a damaged file: one LCP value too large
IndexBadLcp ==
    [IndexAABAB EXCEPT !.lcp = [IndexAABAB.lcp EXCEPT ![4] = @ + 1]]
\* a file of another format revision
IndexOtherVersion ==
    [IndexEmpty EXCEPT !.version = OUTFILE_VERSION + 1]

\* the index files of "ABA$" whose SA and LCP sections hold anything at
\* all: the one a build writes among them, the others damaged
CheckIndices ==
    { IndexFile(OUTFILE_VERSION, 0, TextABA, <<0>>, <<"1">>, sa, lcp) :
        sa \in [1..Len(TextABA) -> 0..(Len(TextABA) - 1)],
        lcp \in [1..Len(TextABA) -> 0..MaxLcp] }

Indices ==
    { IndexAABAB, IndexAANAB, IndexEmpty, IndexCapped,
      IndexBadOrder, IndexBadLcp, IndexOtherVersion }

---------------------------------------------------------------------------
(* File-access layer (FileAccess<T>), modelled from section 4.2 of the     *)
(* design: a handle over `count` values; `position` is the rank the        *)
(* handle's buffer stands at after its last read.                          *)

\* FileAccess::new
FileAccess_new(count) == [count |-> count, position |-> 0]

\* reset(): back to the first element
FileAccess_reset(fa) == [fa EXCEPT !.position = 0]

\* get(i): Some(the i-th value) as <<v>>, None as <<>>
FileAccess_get(fa, data, i) == IF i < fa.count THEN <<data[i + 1]>> ELSE <<>>

\* the handle after get(i)
FileAccess_after_get(fa, i) ==
    IF i < fa.count THEN [fa EXCEPT !.position = i + 1] ELSE fa

\* iter().collect(): every element from position 0
FileAccess_iter(fa, data) == Slice(data, 0, fa.count)

\* the handle after iter() ran to its end
FileAccess_after_iter(fa) == [fa EXCEPT !.position = fa.count]

\* get_range that takes the end of the range for a rank to be read
FileAccess_get_range_end_read(fa, data, lo, hi) ==
    IF hi >= fa.count \/ lo > hi
    THEN [ok |-> FALSE, values |-> <<>>]
    ELSE [ok |-> TRUE, values |-> Slice(data, lo, hi)]

\* get_range(lo..hi): the block, or "Invalid range" if hi > count or lo > hi
FileAccess_get_range(fa, data, lo, hi) ==
    IF hi > fa.count \/ lo > hi
    THEN [ok |-> FALSE, values |-> <<>>]
    ELSE [ok |-> TRUE, values |-> Slice(data, lo, hi)]

\* the handle after get_range(lo..hi): where it was if the range was
\* refused, else behind the block read
FileAccess_after_get_range(fa, lo, hi) ==
    IF hi > fa.count \/ lo > hi THEN fa ELSE [fa EXCEPT !.position = hi]

---------------------------------------------------------------------------
(* SufrFile::read and util::read_text_length *)

\* SufrFile::read: the instance built from the file; the version byte is
\* stored as read, whatever its value
SufrFile_read(file) ==
    [ version               |-> file.version,
      query_low_memory      |-> FALSE,
      max_query_len         |-> file.max_query_len,
      text_len              |-> file.text_len,
      num_suffixes          |-> file.num_suffixes,
      num_sequences         |-> file.num_sequences,
      sequence_starts       |-> slice_u8_to_vec(file.sequence_starts,
                                                file.num_sequences, SIZE_OF_T),
      headers               |-> file.headers,
      text                  |-> file.text,
      suffix_array_file     |-> FileAccess_new(file.num_suffixes),
      lcp_file              |-> FileAccess_new(file.num_suffixes),
      suffix_array_mem      |-> <<>>,
      suffix_array_mem_mql  |-> <<>>,
      suffix_array_rank_mem |-> <<>> ]

\* read_text_length: Ok(text_len) for the known version, else an error
read_text_length(file) ==
    IF file.version = OUTFILE_VERSION
    THEN [status |-> "Ok", value |-> file.text_len]
    ELSE [status |-> "Err", value |-> file.version]

---------------------------------------------------------------------------
(* SufrFile::find_lcp and SufrFile::check *)

\* find_lcp: length of the common prefix of text[start1..] and
\* text[start2..], both ranges ending at min(start + len, len)
find_lcp(text, start1, start2, len) ==
    LET end1 == min(start1 + len, len)
        end2 == min(start2 + len, len)
        RECURSIVE Count(_)
        Count(k) ==
            IF start1 + k < end1 /\ start2 + k < end2
               /\ text[start1 + k + 1] = text[start2 + k + 1]
            THEN Count(k + 1)
            ELSE k
    IN  Count(0)

\* check_errors without the comparison of the stored LCP
check_errors_order_only(s, i, cur_sa, cur_lcp, prev_sa) ==
    IF TextGet(s.text, prev_sa + cur_lcp) < TextGet(s.text, cur_sa + cur_lcp)
    THEN <<>>
    ELSE << [kind |-> "greater than previous", cur_sa |-> cur_sa,
             rank |-> i, cur_lcp |-> cur_lcp,
             check_lcp |-> find_lcp(s.text, cur_sa, prev_sa, s.text_len)] >>

\* the strings check() pushes at rank i, given the previous suffix
check_errors(s, i, cur_sa, cur_lcp, prev_sa) ==
    LET check_lcp == find_lcp(s.text, cur_sa, prev_sa, s.text_len)
        is_less == TextGet(s.text, prev_sa + cur_lcp)
                       < TextGet(s.text, cur_sa + cur_lcp)
        e1 == IF check_lcp # cur_lcp
              THEN << [kind |-> "LCP should be", cur_sa |-> cur_sa, rank |-> i,
                       cur_lcp |-> cur_lcp, check_lcp |-> check_lcp] >>
              ELSE <<>>
        e2 == IF ~is_less
              THEN << [kind |-> "greater than previous", cur_sa |-> cur_sa,
                       rank |-> i, cur_lcp |-> cur_lcp,
                       check_lcp |-> check_lcp] >>
              ELSE <<>>
    IN  e1 \o e2

\* the loop of check() from rank i on: it ends with Ok(errors) after the
\* last rank, or in panic!("blah") at the first rank that pushed an error
RECURSIVE check_loop(_, _, _, _)
check_loop(s, file, i, previous) ==
    IF i >= s.num_suffixes
    THEN [status |-> "Ok", errors |-> <<>>, last |-> i]
    ELSE LET cur_sa == FileAccess_get(s.suffix_array_file, file.sa, i)[1]
             cur_lcp == FileAccess_get(s.lcp_file, file.lcp, i)[1]
             errors == IF previous = <<>> THEN <<>>
                       ELSE check_errors(s, i, cur_sa, cur_lcp, previous[1])
         IN  IF errors # <<>>
             THEN [status |-> "Panic", errors |-> errors, last |-> i + 1]
             ELSE check_loop(s, file, i + 1, <<cur_sa>>)

\* check(): the outcome and the instance afterwards (the two handles have
\* moved to the last rank read)
check(s, file) ==
    LET r == check_loop(s, file, 0, <<>>)
        n == IF r.last > 0 THEN r.last - 1 ELSE 0
    IN  [ status |-> r.status,
          errors |-> r.errors,
          sufr   |-> IF s.num_suffixes = 0 THEN s
                     ELSE [s EXCEPT
                             !.suffix_array_file =
                                 FileAccess_after_get(@, n),
                             !.lcp_file = FileAccess_after_get(@, n)] ]

---------------------------------------------------------------------------
(* SufrFile::subsample_suffix_array *)

\* subsample_keeps that also keeps lcp = max_query_len
subsample_keeps_upto(lcp, max_query_len) == lcp <= max_query_len

\* subsample_keeps with the threshold one too low
subsample_keeps_below(lcp, max_query_len) == lcp < max_query_len - 1

\* the test of the loop: rank i is kept iff lcp < max_query_len
subsample_keeps(lcp, max_query_len) == lcp < max_query_len

\* subsample_suffix_array: both handles are reset, then LCP and SA are read
\* in lockstep; the result is <<suffix_array, rank>>
subsample_suffix_array(s, file, max_query_len) ==
    LET lcps == FileAccess_iter(FileAccess_reset(s.lcp_file), file.lcp)
        sufs == FileAccess_iter(FileAccess_reset(s.suffix_array_file), file.sa)
        RECURSIVE Loop(_, _, _)
        Loop(i, suffix_array, rank) ==
            IF i >= min(Len(lcps), Len(sufs)) THEN <<suffix_array, rank>>
            ELSE IF subsample_keeps(lcps[i + 1], max_query_len)
                 THEN Loop(i + 1, Append(suffix_array, sufs[i + 1]),
                           Append(rank, i))
                 ELSE Loop(i + 1, suffix_array, rank)
    IN  Loop(0, <<>>, <<>>)

---------------------------------------------------------------------------
(* SufrFile::set_suffix_array_mem and its cache files *)

\* the bytes the cache writer puts out: the element count, the compressed
\* SA (T-wide), the ranks (usize-wide)
cache_file_bytes(suffix_array_mem, suffix_array_rank_mem) ==
    usize_to_bytes(Len(suffix_array_mem))
        \o vec_to_slice_u8(suffix_array_mem, SIZE_OF_T)
        \o vec_to_slice_u8(suffix_array_rank_mem, SIZE_OF_USIZE)

\* what the cache reader takes from a file: <<suffix_array_mem, ranks>>
cache_file_load(bytes) ==
    LET num_elements == from_ne_bytes(bytes, 0, SIZE_OF_USIZE)
        sa_end == SIZE_OF_USIZE + num_elements * SIZE_OF_T
    IN  << slice_u8_to_vec(Slice(bytes, SIZE_OF_USIZE, sa_end),
                           num_elements, SIZE_OF_T),
           slice_u8_to_vec(Slice(bytes, sa_end, Len(bytes)),
                           num_elements, SIZE_OF_USIZE) >>

\* effective_mql that lets a request of 0 stand when there is a cap
effective_mql_zero_kept(s, max_query_len) ==
    IF s.max_query_len > 0 /\ max_query_len > 0
    THEN min(max_query_len, s.max_query_len)
    ELSE max_query_len

\* the max_query_len the call goes by: a build-time cap bounds the request
\* and replaces a request of 0
effective_mql(s, max_query_len) ==
    IF s.max_query_len > 0
    THEN IF max_query_len > 0 THEN min(max_query_len, s.max_query_len)
         ELSE s.max_query_len
    ELSE max_query_len

\* the "do nothing if we've already loaded the correct SA/MQL" test
uses_existing(s, mql) ==
    /\ s.suffix_array_mem # <<>>
    /\ s.suffix_array_mem_mql # <<>>
    /\ s.suffix_array_mem_mql[1] = mql

\* is_stale that also discards a cache file as old as the index
is_stale_or_equal(file, cache_file) == file.mtime >= cache_file.modified

\* the "check for stale cache" test: the index is newer than the cache file
is_stale(file, cache_file) == file.mtime > cache_file.modified

\* set_suffix_array_mem(max_query_len): the instance and the cache directory
\* afterwards, and the file I/O the call did
set_suffix_array_mem(s, file, cache, max_query_len) ==
    LET mql == effective_mql(s, max_query_len)
    IN  IF mql = s.max_query_len
        THEN \* stuff the entire SA into memory; there will be no ranks
             [ status |-> "Ok",
               sufr   |-> [s EXCEPT
                             !.suffix_array_file = FileAccess_after_iter(@),
                             !.suffix_array_mem =
                                 FileAccess_iter(s.suffix_array_file, file.sa),
                             !.suffix_array_rank_mem = <<>>],
               cache  |-> cache,
               io     |-> {"read SA"} ]
        ELSE IF uses_existing(s, mql)
        THEN [status |-> "Ok", sufr |-> s, cache |-> cache, io |-> {}]
        ELSE LET stale == mql \in DOMAIN cache /\ is_stale(file, cache[mql])
                 kept == IF stale
                         THEN [q \in DOMAIN cache \ {mql} |-> cache[q]]
                         ELSE cache
                 stat_io == {"stat cache dir"}
                            \cup (IF stale THEN {"remove cache file"} ELSE {})
             IN  IF mql \in DOMAIN kept
                 THEN \* read the cache file
                      LET loaded == cache_file_load(kept[mql].bytes)
                      IN  [ status |-> "Ok",
                            sufr   |-> [s EXCEPT
                                          !.suffix_array_mem = loaded[1],
                                          !.suffix_array_rank_mem = loaded[2]],
                            cache  |-> kept,
                            io     |-> stat_io \cup {"read cache file"} ]
                 ELSE \* subsample, install, write the cache file
                      LET sub == subsample_suffix_array(s, file, mql)
                          written ==
                              [ modified |-> file.mtime + 1,
                                bytes |-> cache_file_bytes(sub[1], sub[2]) ]
                      IN  [ status |-> "Ok",
                            sufr   |-> [s EXCEPT
                                          !.lcp_file = FileAccess_after_iter(@),
                                          !.suffix_array_file =
                                              FileAccess_after_iter(@),
                                          !.suffix_array_mem_mql = <<mql>>,
                                          !.suffix_array_mem = sub[1],
                                          !.suffix_array_rank_mem = sub[2]],
                            cache  |-> (mql :> written) @@ kept,
                            io     |-> stat_io \cup {"read LCP", "read SA",
                                                     "write cache file"} ]

---------------------------------------------------------------------------
(* Search kernel (SufrSearch<T>), modelled from section 4.5 of the design. *)
(* A kernel k holds what SufrSearch::new is given in suffix_search: the    *)
(* text, its own SA file handle (with the file's SA), the resident SA and  *)
(* ranks, the low_memory flag and num_suffixes.                            *)

\* SufrSearch::new as suffix_search calls it
SufrSearch_new(s, file, low_memory) ==
    [ text                  |-> s.text,
      suffix_array_file     |-> FileAccess_new(s.num_suffixes),
      sa_on_disk            |-> file.sa,
      suffix_array_mem      |-> s.suffix_array_mem,
      suffix_array_rank_mem |-> s.suffix_array_rank_mem,
      low_memory            |-> low_memory,
      num_suffixes          |-> s.num_suffixes ]

\* sa_at(rank): from the file in low-memory mode, else from the resident SA
sa_at(k, rank) ==
    IF k.low_memory
    THEN FileAccess_get(k.suffix_array_file, k.sa_on_disk, rank)[1]
    ELSE k.suffix_array_mem[rank + 1]

\* the rank domain N of the binary searches
search_domain(k) ==
    IF k.low_memory THEN k.num_suffixes ELSE Len(k.suffix_array_mem)

\* compare(query, suffix_start, skip): the order of text[suffix_start..]
\* relative to the query from depth skip on, and the number of further
\* equal bytes.  "Equal" = the query is a prefix of the suffix; the end of
\* the text is less than any byte.
compare(k, query, suffix_start, skip) ==
    LET RECURSIVE Cmp(_)
        Cmp(l) ==
            IF skip + l >= Len(query) THEN [cmp |-> "Equal", lcp |-> l]
            ELSE LET a == TextGet(k.text, suffix_start + skip + l)
                     b == query[skip + l + 1]
                 IN  IF a < b THEN [cmp |-> "Less", lcp |-> l]
                     ELSE IF a > b THEN [cmp |-> "Greater", lcp |-> l]
                     ELSE Cmp(l + 1)
    IN  Cmp(0)

\* the depth the probe at mid is compared from
skip_depth(lcp_lo, lcp_hi) == min(lcp_lo, lcp_hi)

\* left boundary: the first rank whose suffix is >= query
RECURSIVE find_left(_, _, _, _, _, _)
find_left(k, query, lo, hi, lcp_lo, lcp_hi) ==
    IF lo >= hi THEN lo
    ELSE LET mid == (lo + hi) \div 2
             skip == skip_depth(lcp_lo, lcp_hi)
             c == compare(k, query, sa_at(k, mid), skip)
         IN  IF c.cmp = "Less"
             THEN find_left(k, query, mid + 1, hi, skip + c.lcp, lcp_hi)
             ELSE IF c.cmp = "Greater"
             THEN find_left(k, query, lo, mid, lcp_lo, skip + c.lcp)
             ELSE find_left(k, query, lo, mid, lcp_lo, lcp_hi)

\* find_right breaking ties as find_left does
find_right_as_left(k, query, lo, hi, lcp_lo, lcp_hi) ==
    find_left(k, query, lo, hi, lcp_lo, lcp_hi)

\* right boundary: the first rank whose suffix is > query
RECURSIVE find_right(_, _, _, _, _, _)
find_right(k, query, lo, hi, lcp_lo, lcp_hi) ==
    IF lo >= hi THEN lo
    ELSE LET mid == (lo + hi) \div 2
             skip == skip_depth(lcp_lo, lcp_hi)
             c == compare(k, query, sa_at(k, mid), skip)
         IN  IF c.cmp = "Less"
             THEN find_right(k, query, mid + 1, hi, skip + c.lcp, lcp_hi)
             ELSE IF c.cmp = "Greater"
             THEN find_right(k, query, lo, mid, lcp_lo, skip + c.lcp)
             ELSE find_right(k, query, mid + 1, hi, lcp_lo, lcp_hi)

\* find_range(query) = <<left, right>> over the rank domain [0, N)
find_range(k, query) ==
    << find_left(k, query, 0, search_domain(k), 0, 0),
       find_right(k, query, 0, search_domain(k), 0, 0) >>

\* the original-SA rank range of the resident range [left, right)
rank_range(k, left, right) ==
    IF k.low_memory \/ k.suffix_array_rank_mem = <<>>
    THEN <<left, right>>
    ELSE << k.suffix_array_rank_mem[left + 1],
            IF right >= Len(k.suffix_array_mem) THEN k.num_suffixes
            ELSE k.suffix_array_rank_mem[right + 1] >>

\* the suffixes of the rank range: from the resident full SA, else from the
\* SA file in one get_range call
range_suffixes(k, ranks) ==
    IF ~k.low_memory /\ k.suffix_array_rank_mem = <<>>
    THEN Slice(k.suffix_array_mem, ranks[1], ranks[2])
    ELSE FileAccess_get_range(k.suffix_array_file, k.sa_on_disk,
                              ranks[1], ranks[2]).values

\* search(query_num, query, find_suffixes): the SearchResult; locations is
\* <<>> (none) when nothing matches, else <<[ranks, suffixes]>> with the
\* suffixes enumerated only when find_suffixes is set
search(k, query_num, query, find_suffixes) ==
    LET r == find_range(k, query)
        ranks == rank_range(k, r[1], r[2])
    IN  [ query_num |-> query_num,
          query     |-> query,
          locations |->
              IF r[1] >= r[2] THEN <<>>
              ELSE << [ ranks    |-> ranks,
                        suffixes |-> IF find_suffixes
                                     THEN range_suffixes(k, ranks)
                                     ELSE <<>> ] >> ]

---------------------------------------------------------------------------
(* SufrFile::suffix_search: the batch dispatcher *)

\* sort_by_key left out: the results as collected
sort_by_key_omitted(res) == res

\* res.sort_by_key(|r| r.query_num): a stable sort, ascending
sort_by_key(res) ==
    LET RECURSIVE Insert(_, _)
        Insert(sorted, r) ==
            IF sorted = <<>> THEN <<r>>
            ELSE IF sorted[Len(sorted)].query_num <= r.query_num
                 THEN Append(sorted, r)
                 ELSE Append(Insert(SubSeq(sorted, 1, Len(sorted) - 1), r),
                             sorted[Len(sorted)])
        RECURSIVE Sort(_)
        Sort(n) == IF n = 0 THEN <<>> ELSE Insert(Sort(n - 1), res[n])
    IN  Sort(Len(res))

\* collect_results that also drops the results without locations
collect_results_located(k, args, order, failed) ==
    LET finished == SelectSeq(order, LAMBDA n : n \notin failed)
        all == [j \in 1..Len(finished) |->
                   search(k, finished[j], args.queries[finished[j] + 1],
                          args.find_suffixes)]
    IN  SelectSeq(all, LAMBDA r : r.locations # <<>>)

\* what flat_map(..).collect() gathers: the workers' results in the order
\* `order` in which the queries were finished; a query in `failed` (its
\* worker got no SA file handle, or its search returned Err) yields an
\* Err(..), which flat_map iterates as no item at all
collect_results(k, args, order, failed) ==
    LET finished == SelectSeq(order, LAMBDA n : n \notin failed)
    IN  [j \in 1..Len(finished) |->
            search(k, finished[j], args.queries[finished[j] + 1],
                   args.find_suffixes)]

\* suffix_search that calls set_suffix_array_mem in low-memory mode too
suffix_search_always_loading(s, file, cache, args, order, failed) ==
    LET s1 == [s EXCEPT !.query_low_memory = args.low_memory]
        max_query_len == IF args.max_query_len = <<>> THEN s.max_query_len
                         ELSE args.max_query_len[1]
        e == set_suffix_array_mem(s1, file, cache, max_query_len)
        k == SufrSearch_new(e.sufr, file, args.low_memory)
    IN  [ status |-> e.status,
          sufr   |-> e.sufr,
          cache  |-> e.cache,
          io     |-> e.io,
          value  |-> sort_by_key(collect_results(k, args, order, failed)) ]

\* suffix_search(args): the instance and cache directory afterwards, the
\* returned Result and the I/O set_suffix_array_mem did
suffix_search(s, file, cache, args, order, failed) ==
    LET s1 == [s EXCEPT !.query_low_memory = args.low_memory]
        max_query_len == IF args.max_query_len = <<>> THEN s.max_query_len
                         ELSE args.max_query_len[1]
        e == IF ~s1.query_low_memory
             THEN set_suffix_array_mem(s1, file, cache, max_query_len)
             ELSE [status |-> "Ok", sufr |-> s1, cache |-> cache, io |-> {}]
        k == SufrSearch_new(e.sufr, file, args.low_memory)
    IN  [ status |-> e.status,
          sufr   |-> e.sufr,
          cache  |-> e.cache,
          io     |-> e.io,
          value  |-> IF e.status = "Ok"
                     THEN sort_by_key(collect_results(k, args, order, failed))
                     ELSE <<>> ]

---------------------------------------------------------------------------
(* SufrFile::locate *)

\* seq_starts.partition_point(|&val| val <= suffix)
partition_point(seq_starts, suffix) ==
    LET RECURSIVE Search(_, _)
        Search(lo, hi) ==
            IF lo >= hi THEN lo
            ELSE LET mid == lo + (hi - lo) \div 2
                 IN  IF seq_starts[mid + 1] <= suffix THEN Search(mid + 1, hi)
                     ELSE Search(lo, mid)
    IN  Search(0, Len(seq_starts))

\* the LocatePosition of one (rank, suffix) pair
locate_position(s, rank, suffix) ==
    LET i == partition_point(s.sequence_starts, suffix) - 1
    IN  [ rank              |-> rank,
          suffix            |-> suffix,
          sequence_name     |-> s.headers[i + 1],
          sequence_position |-> suffix - s.sequence_starts[i + 1] ]

\* the LocateResult of one SearchResult: a position for every pair of
\* locs.ranks.zip(locs.suffixes)
locate_result(s, res) ==
    [ query_num |-> res.query_num,
      query     |-> res.query,
      positions |->
          IF res.locations = <<>> THEN <<>>
          ELSE LET locs == res.locations[1]
                   n == min(locs.ranks[2] - locs.ranks[1], Len(locs.suffixes))
               IN  [j \in 1..n |->
                       locate_position(s, locs.ranks[1] + j - 1,
                                       locs.suffixes[j])] ]

\* locate(args)
locate(s, file, cache, args, order, failed) ==
    CHOOSE located \in
        { [ status |-> r.status,
            sufr   |-> r.sufr,
            cache  |-> r.cache,
            io     |-> r.io,
            found  |-> r.value,
            value  |-> [j \in 1..Len(r.value) |->
                           locate_result(r.sufr, r.value[j])] ] :
          r \in {suffix_search(s, file, cache, args, order, failed)} } : TRUE

---------------------------------------------------------------------------
(* SufrFile::extract *)

\* relative_suffix_start.saturating_sub(prefix_len)
saturating_sub(a, b) == IF a >= b THEN a - b ELSE 0

\* extract_sequence with a context that ends suffix_len after the suffix
\* starts, wherever the sequence ends
extract_sequence_unbounded(s, args, rank, suffix) ==
    LET i == partition_point(s.sequence_starts, suffix) - 1
        seq_end == IF i = Len(s.sequence_starts) - 1 THEN s.text_len
                   ELSE s.sequence_starts[i + 2]
        relative_suffix_start == suffix - s.sequence_starts[i + 1]
        context_start ==
            saturating_sub(relative_suffix_start,
                           IF args.prefix_len = <<>> THEN 0
                           ELSE args.prefix_len[1])
    IN  [ rank           |-> rank,
          suffix         |-> suffix,
          sequence_name  |-> s.headers[i + 1],
          sequence_range |->
              << context_start,
                 IF args.suffix_len = <<>> THEN seq_end
                 ELSE relative_suffix_start + args.suffix_len[1] >>,
          suffix_offset  |-> relative_suffix_start - context_start ]

\* the ExtractSequence of one (rank, suffix) pair; sequence_range is
\* <<start, end>> for the range start..end
extract_sequence(s, args, rank, suffix) ==
    LET i == partition_point(s.sequence_starts, suffix) - 1
        seq_start == s.sequence_starts[i + 1]
        seq_end == IF i = Len(s.sequence_starts) - 1 THEN s.text_len
                   ELSE s.sequence_starts[i + 2]
        relative_suffix_start == suffix - seq_start
        context_start ==
            saturating_sub(relative_suffix_start,
                           IF args.prefix_len = <<>> THEN 0
                           ELSE args.prefix_len[1])
        context_end ==
            min(IF args.suffix_len = <<>> THEN seq_end
                ELSE relative_suffix_start + args.suffix_len[1],
                seq_end)
    IN  [ rank           |-> rank,
          suffix         |-> suffix,
          sequence_name  |-> s.headers[i + 1],
          sequence_range |-> <<context_start, context_end>>,
          suffix_offset  |-> relative_suffix_start - context_start ]

\* the ExtractResult of one SearchResult: a sequence for every pair of
\* locs.ranks.zip(locs.suffixes)
extract_result(s, args, res) ==
    [ query_num |-> res.query_num,
      query     |-> res.query,
      sequences |->
          IF res.locations = <<>> THEN <<>>
          ELSE LET locs == res.locations[1]
                   n == min(locs.ranks[2] - locs.ranks[1], Len(locs.suffixes))
               IN  [j \in 1..n |->
                       extract_sequence(s, args, locs.ranks[1] + j - 1,
                                        locs.suffixes[j])] ]

\* extract(args): a suffix_search with find_suffixes = true, then the
\* contexts
extract(s, file, cache, args, order, failed) ==
    LET search_args == [ queries       |-> args.queries,
                         max_query_len |-> args.max_query_len,
                         low_memory    |-> args.low_memory,
                         find_suffixes |-> TRUE ]
    IN  CHOOSE extracted \in
            { [ status |-> r.status,
                sufr   |-> r.sufr,
                cache  |-> r.cache,
                io     |-> r.io,
                found  |-> r.value,
                value  |-> [j \in 1..Len(r.value) |->
                               extract_result(r.sufr, args, r.value[j])] ] :
              r \in {suffix_search(s, file, cache, search_args, order,
                                   failed)} } : TRUE

---------------------------------------------------------------------------
(* Inputs *)

\* the query strings: every string over {A, B} of 1..MaxQueryLen bytes
Queries ==
    UNION { [1..n -> {65, 66}] : n \in 1..MaxQueryLen }

\* SearchOptions.max_query_len: None (<<>>) or Some(q); Some(0) goes the
\* way of None in set_suffix_array_mem and is left to the direct calls
MqlOptions == {<<>>} \cup { <<q>> : q \in 1..MaxMql }

\* the SearchOptions over the batches in `batches`
SearchOptions(batches) ==
    [ queries       : batches,
      max_query_len : MqlOptions,
      low_memory    : BOOLEAN,
      find_suffixes : BOOLEAN ]

\* the sequences a record can hold: the strings over {A, B} of
\* 0..MaxRecordLen bytes
RecordSeqs ==
    UNION { [1..n -> {65, 66}] : n \in 0..MaxRecordLen }

\* the FASTA/FASTQ files of 0..MaxRecords records; the id of the k-th
\* record is the byte 'a' + k
SequenceFiles ==
    { [records |-> [k \in 1..Len(seqs) |->
                       [id |-> <<97 + k>>, seq |-> seqs[k]]]] :
        seqs \in UNION { [1..m -> RecordSeqs] : m \in 0..MaxRecords } }

\* the delimiters a caller passes: 'N', '-'
Delimiters == {78, 45}

\* std::mem::size_of::<T>() for T = u32 and T = u64
Widths == {4, 8}

\* the values held in the vectors: each of the four low bytes zero or not,
\* the value below 2^31
Values ==
    { b0 + 256 * b1 + 65536 * b2 + 16777216 * b3 :
        b0 \in {0, 255}, b1 \in {0, 255}, b2 \in {0, 1}, b3 \in {0, 127} }

\* the vectors of 0..MaxVecLen values
Vectors == UNION { [1..n -> Values] : n \in 0..MaxVecLen }

\* the batches of one query
SingleBatches == { <<q>> : q \in Queries }

\* ExtractOptions.prefix_len and suffix_len: None (<<>>) or Some(n)
PrefixOptions == {<<>>} \cup { <<n>> : n \in 0..MaxPrefixLen }
SuffixOptions == {<<>>} \cup { <<n>> : n \in 0..MaxSuffixLen }

\* the ExtractOptions over the batches in `batches`
ExtractOptions(batches) ==
    [ queries       : batches,
      max_query_len : MqlOptions,
      low_memory    : BOOLEAN,
      prefix_len    : PrefixOptions,
      suffix_len    : SuffixOptions ]

\* the queries the batches of several queries are made of: "A" (matches
\* many suffixes), "AB" (matches some), "BB" (matches none)
BatchQueries == { <<65>>, <<65, 66>>, <<66, 66>> }

\* the batches of 1..MaxBatch of these
Batches ==
    UNION { [1..n -> BatchQueries] : n \in 1..MaxBatch }

\* the orders in which the workers can finish the queries 0..n-1
FinishOrders(n) ==
    { o \in [1..n -> 0..(n - 1)] :
        \A i, j \in 1..n : i # j => o[i] # o[j] }

\* a cache file of the index `file` for max_query_len q, as
\* set_suffix_array_mem writes it, last modified at time `modified`
CacheFileOf(file, q, modified) ==
    LET sub == subsample_suffix_array(SufrFile_read(file), file, q)
    IN  [modified |-> modified, bytes |-> cache_file_bytes(sub[1], sub[2])]

\* what $HOME/.sufr can hold when the program starts: nothing, or, left by
\* earlier runs, an up-to-date cache file for max_query_len 1 and one for
\* max_query_len 2 that is older than the index and was made from another
\* build of it
InitialCaches(file) ==
    IF file = IndexAABAB
    THEN { <<>>,
           (1 :> CacheFileOf(file, 1, file.mtime))
               @@ (2 :> CacheFileOf(IndexAANAB, 2, file.mtime - 1)) }
    ELSE { <<>> }

---------------------------------------------------------------------------
(* The state machine *)

NoSufr == [version |-> 0]
NoRet == [op |-> "none"]
\* no set_suffix_array_mem call yet; no get_range on the SA handle has
\* failed, and no read has followed such a failure
NoHist == [prev |-> <<>>, mqls |-> {}, invalid_range |-> FALSE, since |-> {}]

Init ==
    /\ disk \in Indices
    /\ cache_dir \in InitialCaches(disk)
    /\ sufr = NoSufr
    /\ pc = "start"
    /\ ret = NoRet
    /\ hist = NoHist

\* the history after a set_suffix_array_mem(max_query_len) call on s: the
\* argument of the latest call, and every max_query_len a compressed SA
\* was asked for
hist_after(s, max_query_len) ==
    LET mql == effective_mql(s, max_query_len)
    IN  [ hist EXCEPT
            !.prev = <<max_query_len>>,
            !.mqls = IF mql = s.max_query_len THEN @ ELSE @ \cup {mql} ]

\* SufrFile::read(filename)
Read ==
    /\ pc = "start" /\ ret.op = "none"
    /\ sufr' = SufrFile_read(disk)
    /\ pc' = "idle"
    /\ ret' = [op |-> "read", status |-> "Ok"]
    /\ UNCHANGED <<disk, cache_dir, hist>>

\* read_text_length(filename)
ReadTextLength ==
    /\ pc = "start" /\ ret.op = "none"
    /\ ret' = [ op     |-> "read_text_length",
                status |-> read_text_length(disk).status,
                value  |-> read_text_length(disk).value ]
    /\ UNCHANGED <<disk, cache_dir, sufr, pc, hist>>

\* vec_to_slice_u8(&vec) on the caller's vector
VecToSliceU8 ==
    /\ pc = "start" /\ ret.op = "none"
    /\ ret' = [ op |-> "vec_to_slice_u8",
                value |-> vec_to_slice_u8(disk.vec, disk.width) ]
    /\ UNCHANGED <<disk, cache_dir, sufr, pc, hist>>

\* slice_u8_to_vec(bytes, vec.len()) on the bytes vec_to_slice_u8 returned
SliceU8ToVec ==
    /\ pc = "start" /\ ret.op = "vec_to_slice_u8"
    /\ ret' = [ op |-> "slice_u8_to_vec", bytes |-> ret.value,
                value |-> slice_u8_to_vec(ret.value, Len(disk.vec),
                                          disk.width) ]
    /\ UNCHANGED <<disk, cache_dir, sufr, pc, hist>>

\* usize_to_bytes(value) on the k-th element of the caller's vector
UsizeToBytes(k) ==
    /\ pc = "start" /\ ret.op = "none"
    /\ ret' = [ op |-> "usize_to_bytes", k |-> k,
                value |-> usize_to_bytes(disk.vec[k]) ]
    /\ UNCHANGED <<disk, cache_dir, sufr, pc, hist>>

\* read_sequence_file(filename, sequence_delimiter) on the input file
ReadSequenceFile(sequence_delimiter) ==
    /\ pc = "start" /\ ret.op = "none"
    /\ LET r == read_sequence_file(disk, sequence_delimiter)
       IN  ret' = [ op |-> "read_sequence_file", status |-> r.status,
                    sequence_delimiter |-> sequence_delimiter,
                    value |-> r.value ]
    /\ UNCHANGED <<disk, cache_dir, sufr, pc, hist>>

\* the history after a read `op` of the SA handle: a refused get_range is
\* noted, and so is every kind of read made after one
hist_after_access(op, ok) ==
    IF ~ok THEN [hist EXCEPT !.invalid_range = TRUE, !.since = {}]
    ELSE IF hist.invalid_range THEN [hist EXCEPT !.since = @ \cup {op}]
    ELSE hist

\* sufr.suffix_array_file.get(i)
FileAccessGet(i) ==
    /\ pc = "idle" /\ ret.op = "none"
    /\ ret' = [ op |-> "get", i |-> i,
                value |-> FileAccess_get(sufr.suffix_array_file, disk.sa, i) ]
    /\ sufr' = [sufr EXCEPT !.suffix_array_file = FileAccess_after_get(@, i)]
    /\ hist' = hist_after_access("get", TRUE)
    /\ UNCHANGED <<disk, cache_dir, pc>>

\* sufr.suffix_array_file.get_range(lo..hi)
FileAccessGetRange(lo, hi) ==
    /\ pc = "idle" /\ ret.op = "none"
    /\ LET r == FileAccess_get_range(sufr.suffix_array_file, disk.sa, lo, hi)
       IN  /\ ret' = [ op |-> "get_range", lo |-> lo, hi |-> hi,
                       status |-> IF r.ok THEN "Ok" ELSE "Invalid range",
                       value |-> r.values ]
           /\ hist' = hist_after_access("get_range", r.ok)
    /\ sufr' = [sufr EXCEPT !.suffix_array_file =
                                FileAccess_after_get_range(@, lo, hi)]
    /\ UNCHANGED <<disk, cache_dir, pc>>

\* sufr.suffix_array_file.iter().collect()
FileAccessIter ==
    /\ pc = "idle" /\ ret.op = "none"
    /\ ret' = [ op |-> "iter",
                value |-> FileAccess_iter(sufr.suffix_array_file, disk.sa) ]
    /\ sufr' = [sufr EXCEPT !.suffix_array_file = FileAccess_after_iter(@)]
    /\ hist' = hist_after_access("iter", TRUE)
    /\ UNCHANGED <<disk, cache_dir, pc>>

\* sufr.check(): returns Ok(errors), or panics and ends the program
Check ==
    /\ pc = "idle" /\ ret.op = "none"
    /\ LET r == check(sufr, disk)
       IN  /\ sufr' = r.sufr
           /\ pc' = IF r.status = "Panic" THEN "panicked" ELSE pc
           /\ ret' = [ op |-> "check", status |-> r.status,
                       value |-> r.errors, before |-> sufr ]
    /\ UNCHANGED <<disk, cache_dir, hist>>

\* sufr.set_suffix_array_mem(max_query_len)
SetSuffixArrayMem(max_query_len) ==
    /\ pc = "idle" /\ ret.op = "none"
    /\ \E r \in {set_suffix_array_mem(sufr, disk, cache_dir, max_query_len)} :
           /\ sufr' = r.sufr
           /\ cache_dir' = r.cache
           /\ ret' = [ op |-> "set_suffix_array_mem", status |-> r.status,
                       max_query_len |-> max_query_len,
                       repeated |-> hist.prev = <<max_query_len>>,
                       io |-> r.io ]
    /\ hist' = hist_after(sufr, max_query_len)
    /\ UNCHANGED <<disk, pc>>

\* the history after suffix_search(args)
hist_after_search(s, args) ==
    IF args.low_memory THEN hist
    ELSE hist_after(s, IF args.max_query_len = <<>> THEN s.max_query_len
                       ELSE args.max_query_len[1])

\* sufr.suffix_search(&args), the workers finishing in `order` and failing
\* on the queries in `failed`
SuffixSearch(args, order, failed) ==
    /\ pc = "idle" /\ ret.op = "none"
    /\ \E r \in {suffix_search(sufr, disk, cache_dir, args, order, failed)} :
           /\ sufr' = r.sufr
           /\ cache_dir' = r.cache
           /\ ret' = [ op |-> "suffix_search", status |-> r.status,
                       args |-> args, order |-> order, failed |-> failed,
                       value |-> r.value ]
    /\ hist' = hist_after_search(sufr, args)
    /\ UNCHANGED <<disk, pc>>

\* sufr.locate(args)
Locate(args, order, failed) ==
    /\ pc = "idle" /\ ret.op = "none"
    /\ \E r \in {locate(sufr, disk, cache_dir, args, order, failed)} :
           /\ sufr' = r.sufr
           /\ cache_dir' = r.cache
           /\ ret' = [ op |-> "locate", status |-> r.status,
                       args |-> args, failed |-> failed, value |-> r.value,
                       found |-> r.found,
                       mqls |-> hist_after_search(sufr, args).mqls ]
    /\ hist' = hist_after_search(sufr, args)
    /\ UNCHANGED <<disk, pc>>

\* sufr.extract(args)
Extract(args, order, failed) ==
    /\ pc = "idle" /\ ret.op = "none"
    /\ \E r \in {extract(sufr, disk, cache_dir, args, order, failed)} :
           /\ sufr' = r.sufr
           /\ cache_dir' = r.cache
           /\ ret' = [ op |-> "extract", status |-> r.status,
                       args |-> args, failed |-> failed, value |-> r.value,
                       found |-> r.found ]
    /\ hist' = hist_after_search(sufr, args)
    /\ UNCHANGED <<disk, pc>>

\* SufrSearch::find_range(query) of a kernel made as suffix_search makes
\* it, over the SA file (low_memory) or over what is resident
FindRange(query, low_memory) ==
    /\ pc = "idle" /\ ret.op = "none"
    /\ low_memory \/ sufr.suffix_array_mem # <<>>
    /\ ret' = [ op |-> "find_range", query |-> query,
                low_memory |-> low_memory,
                value |-> find_range(SufrSearch_new(sufr, disk, low_memory),
                                     query) ]
    /\ UNCHANGED <<disk, cache_dir, sufr, pc, hist>>

\* the caller takes the returned value and goes on
Return ==
    /\ ret.op # "none" /\ pc # "panicked"
    /\ ret' = NoRet
    /\ UNCHANGED <<disk, cache_dir, sufr, pc, hist>>

\* the index files that are what a build writes
BuiltIndices == { IndexAABAB, IndexAANAB, IndexEmpty, IndexCapped }

\* a worker can fail on any of the n queries
Failures(n) == SUBSET (0..(n - 1))

\* One instance over any of the index files; the searches are batches of
\* one query.
Next ==
    \/ Read
    \/ ReadTextLength
    \/ Check
    \/ \E q \in 0..MaxMql : SetSuffixArrayMem(q)
    \/ \E args \in SearchOptions(SingleBatches) :
         \E failed \in Failures(1) : Locate(args, <<0>>, failed)
    \/ \E query \in Queries : \E low_memory \in BOOLEAN :
         FindRange(query, low_memory)
    \/ Return

Spec == Init /\ [][Next]_vars

\* One instance over a built index; the searches are batches of several
\* queries whose workers finish in any order.
InitBatch == Init /\ disk \in BuiltIndices

NextBatch ==
    \/ Read
    \/ \E args \in SearchOptions(Batches) :
         \E order \in FinishOrders(Len(args.queries)) :
           \E failed \in Failures(Len(args.queries)) :
             \/ SuffixSearch(args, order, failed)
             \/ Locate(args, order, failed)
    \/ Return

SpecBatch == InitBatch /\ [][NextBatch]_vars

\* One instance over a built index; searches, locates and extracts of one
\* query.
NextExtract ==
    \/ Read
    \/ \E args \in SearchOptions(SingleBatches) :
         \/ SuffixSearch(args, <<0>>, {})
         \/ Locate(args, <<0>>, {})
    \/ \E args \in ExtractOptions(SingleBatches) : Extract(args, <<0>>, {})
    \/ Return

SpecExtract == InitBatch /\ [][NextExtract]_vars

\* One instance over an index file of "ABA$" that may be damaged anywhere
\* in its SA and LCP sections; the caller reads it and checks it.
InitCheck ==
    /\ disk \in CheckIndices
    /\ cache_dir = <<>>
    /\ sufr = NoSufr
    /\ pc = "start"
    /\ ret = NoRet
    /\ hist = NoHist

NextCheck ==
    \/ Read
    \/ Check
    \/ Return

SpecCheck == InitCheck /\ [][NextCheck]_vars

\* One instance over a built index; the caller reads the SA through the
\* instance's handle, with ranges that may reach past the end.
NextFile ==
    \/ Read
    \/ \E i \in 0..(disk.num_suffixes + 1) : FileAccessGet(i)
    \/ \E lo, hi \in 0..(disk.num_suffixes + 1) : FileAccessGetRange(lo, hi)
    \/ FileAccessIter
    \/ Return

SpecFile == InitBatch /\ [][NextFile]_vars

\* The builder's reading of its input: disk is the FASTA/FASTQ file.
InitSeq ==
    /\ disk \in SequenceFiles
    /\ cache_dir = <<>>
    /\ sufr = NoSufr
    /\ pc = "start"
    /\ ret = NoRet
    /\ hist = NoHist

NextSeq ==
    \/ \E sequence_delimiter \in Delimiters :
         ReadSequenceFile(sequence_delimiter)
    \/ Return

SpecSeq == InitSeq /\ [][NextSeq]_vars

\* The serialisation helpers on a little-endian host: disk is the caller's
\* vector and the width of its elements.
InitBytes ==
    /\ disk \in [vec : Vectors, width : Widths]
    /\ cache_dir = <<>>
    /\ sufr = NoSufr
    /\ pc = "start"
    /\ ret = NoRet
    /\ hist = NoHist

NextBytes ==
    \/ VecToSliceU8
    \/ SliceU8ToVec
    \/ \E k \in 1..Len(disk.vec) : UsizeToBytes(k)
    \/ Return

SpecBytes == InitBytes /\ [][NextBytes]_vars

---------------------------------------------------------------------------
(* Properties *)

\* the query is a prefix of the suffix of text that starts at `start`
StartsWith(text, start, query) ==
    \A j \in 1..Len(query) : TextGet(text, start + j - 1) = query[j]

\* no suffix of text starts with the query
MatchesNothing(text, query) ==
    \A start \in 0..(Len(text) - 1) : ~StartsWith(text, start, query)

\* the max_query_len a search with `args` goes by on the instance s
\* (0: no limit, s has no build-time cap)
SearchMql(s, args) ==
    effective_mql(s, IF args.max_query_len = <<>> THEN s.max_query_len
                     ELSE args.max_query_len[1])

\* the query is no longer than the max_query_len the search goes by
WithinMql(s, args, query) ==
    SearchMql(s, args) = 0 \/ Len(query) <= SearchMql(s, args)

\* the absolute positions of a list of LocatePosition records
PositionSet(positions) ==
    { positions[j].suffix : j \in 1..Len(positions) }

\* the positions a new instance over `file` locates for one query alone,
\* reading the SA from disk
LowMemoryLocate(file, query, find_suffixes) ==
    locate(SufrFile_read(file), file, <<>>,
           [ queries       |-> <<query>>,
             max_query_len |-> <<>>,
             low_memory    |-> TRUE,
             find_suffixes |-> find_suffixes ],
           <<0>>, {}).value[1].positions

\* C1: when no query of the batch failed, suffix_search returns one result
\* per submitted query, and the result at output index k has query_num = k
\* and query = queries[k], in whatever order the workers finished.
C1_OutputInSubmissionOrder ==
    (ret.op = "suffix_search" /\ ret.status = "Ok" /\ ret.failed = {})
    => /\ Len(ret.value) = Len(ret.args.queries)
       /\ \A k \in 0..(Len(ret.value) - 1) :
            /\ ret.value[k + 1].query_num = k
            /\ ret.value[k + 1].query = ret.args.queries[k + 1]

\* C1 at work: two different queries, the second finished first
C1_Witness ==
    /\ ret.op = "suffix_search" /\ ret.status = "Ok" /\ ret.failed = {}
    /\ ret.order = <<1, 0>>
    /\ ret.args.queries = << <<65>>, <<65, 66>> >>
    /\ ret.value[1].query = <<65>>
    /\ ret.value[2].query_num = 1

\* C2: when the search of any query of the batch fails, suffix_search and
\* locate return an error for the whole batch.
C2_FailFast ==
    (ret.op \in {"suffix_search", "locate"} /\ ret.failed # {})
    => ret.status = "Err"

\* C3: on a built index and for a query no longer than the max_query_len
\* the search goes by, locate with low_memory = false reports the same set
\* of absolute positions as locate with low_memory = true.
C3_ResidentEqualsLowMemory ==
    ( /\ ret.op = "locate" /\ ret.status = "Ok" /\ ret.failed = {}
      /\ ~ret.args.low_memory
      /\ disk \in BuiltIndices
      /\ \A j \in 1..Len(ret.args.queries) :
           WithinMql(sufr, ret.args, ret.args.queries[j]) )
    => \A j \in 1..Len(ret.value) :
         PositionSet(ret.value[j].positions)
             = PositionSet(LowMemoryLocate(disk, ret.value[j].query,
                                           ret.args.find_suffixes))

\* the ranks of the kernel's domain whose suffix starts with the query
MatchingRanks(k, query) ==
    { r \in 0..(search_domain(k) - 1) :
        StartsWith(k.text, sa_at(k, r), query) }

\* the binary searches comparing every probe from byte 0
RECURSIVE NaiveBoundary(_, _, _, _, _)
NaiveBoundary(k, query, lo, hi, right) ==
    IF lo >= hi THEN lo
    ELSE LET mid == (lo + hi) \div 2
             c == compare(k, query, sa_at(k, mid), 0)
         IN  IF c.cmp = "Less" \/ (c.cmp = "Equal" /\ right)
             THEN NaiveBoundary(k, query, mid + 1, hi, right)
             ELSE NaiveBoundary(k, query, lo, mid, right)

NaiveRange(k, query) ==
    << NaiveBoundary(k, query, 0, search_domain(k), FALSE),
       NaiveBoundary(k, query, 0, search_domain(k), TRUE) >>

\* the kernel whose find_range is in ret
RangeKernel == SufrSearch_new(sufr, disk, ret.low_memory)

\* C4: on a built index, for a query within the build-time cap, find_range
\* returns the (left, right) of the naive binary search, the ranks in
\* [left, right) are exactly the ranks whose suffix starts with the query,
\* and over the whole SA right - left is 0 exactly when no suffix of the
\* text starts with the query.
C4_FindRangeExact ==
    ( /\ ret.op = "find_range"
      /\ disk \in BuiltIndices
      /\ sufr.max_query_len = 0 \/ Len(ret.query) <= sufr.max_query_len )
    => /\ ret.value = NaiveRange(RangeKernel, ret.query)
       /\ ret.value[1] <= ret.value[2]
       /\ ret.value[1]..(ret.value[2] - 1)
              = MatchingRanks(RangeKernel, ret.query)
       /\ search_domain(RangeKernel) = sufr.num_suffixes
            => ( ret.value[2] - ret.value[1] = 0
                   <=> MatchesNothing(sufr.text, ret.query) )

\* C4 at work: "AB" over the compressed SA of "AANAB$", where the probes
\* are compared from a depth above 0
C4_Witness ==
    /\ ret.op = "find_range" /\ disk = IndexAANAB
    /\ ~ret.low_memory /\ sufr.suffix_array_rank_mem # <<>>
    /\ ret.query = <<65, 66>>
    /\ ret.value[2] - ret.value[1] = 1

\* C5: on a built index, the positions locate reports for a query are those
\* a new instance reports for the query alone, whatever the other queries
\* of the batch, the query's place in it, and the earlier searches of the
\* instance, provided no compressed SA was asked for with a max_query_len
\* below the query's length.
C5_LocateDependsOnIndexAndQuery ==
    (ret.op = "locate" /\ ret.status = "Ok" /\ disk \in BuiltIndices)
    => \A j \in 1..Len(ret.value) :
         (\A q \in ret.mqls : Len(ret.value[j].query) <= q)
         => ret.value[j].positions
                = LowMemoryLocate(disk, ret.value[j].query,
                                  ret.args.find_suffixes)

\* C5 at work: "A" in the second place of a resident batch, after
\* compressed SAs for two different max_query_len were asked for, and the
\* resident SA is not the one the label names
C5_Witness ==
    /\ ret.op = "locate" /\ ret.status = "Ok" /\ ret.failed = {}
    /\ disk = IndexAABAB
    /\ ~ret.args.low_memory /\ ret.args.find_suffixes
    /\ ret.mqls = {1, 2}
    /\ Len(ret.args.queries) = 2 /\ ret.args.queries[2] = <<65>>
    /\ Len(ret.value[2].positions) = 3
    /\ sufr.suffix_array_mem_mql = <<2>>
    /\ Len(sufr.suffix_array_mem) = 3

\* C6: a set_suffix_array_mem call with the max_query_len of the call
\* before it does no file I/O.
C6_SecondCallNoIO ==
    (ret.op = "set_suffix_array_mem" /\ ret.repeated) => ret.io = {}

\* C7: reading an index file of another version fails and yields no
\* instance.
C7_ReadRejectsOtherVersion ==
    (ret.op = "read" /\ disk.version # OUTFILE_VERSION)
    => (ret.status = "Err" /\ sufr = NoSufr)

\* the fields of the index, without the state of the two file handles
IndexFields(s) ==
    [s EXCEPT !.suffix_array_file = FileAccess_reset(@),
              !.lcp_file = FileAccess_reset(@)]

\* C8: check() returns its list of discrepancies, which is not empty for
\* a damaged index, and leaves the fields of the index as they were.
C8_CheckReturnsErrors ==
    ret.op = "check"
    => /\ ret.status = "Ok"
       /\ disk \in {IndexBadOrder, IndexBadLcp} => ret.value # <<>>
       /\ IndexFields(sufr) = IndexFields(ret.before)

\* C9: for a query that no suffix of the text starts with, locate returns
\* Ok and the query's record has its query_num, its query and no
\* positions, in low-memory and in resident mode.
C9_NoMatchIsNoError ==
    (ret.op = "locate" /\ ret.failed = {})
    => /\ ret.status = "Ok"
       /\ Len(ret.value) = Len(ret.args.queries)
       /\ \A j \in 1..Len(ret.value) :
            MatchesNothing(sufr.text, ret.args.queries[j])
            => /\ ret.value[j].query_num = j - 1
               /\ ret.value[j].query = ret.args.queries[j]
               /\ ret.value[j].positions = <<>>

\* C9 at work: a query longer than the text, over a resident SA
C9_Witness ==
    /\ ret.op = "locate" /\ ret.status = "Ok" /\ ret.failed = {}
    /\ ~ret.args.low_memory
    /\ Len(ret.args.queries[1]) > sufr.text_len
    /\ ret.value[1].positions = <<>>

\* the largest i with sequence_starts[i] <= suffix
SequenceOf(seq_starts, suffix) ==
    CHOOSE i \in 0..(Len(seq_starts) - 1) :
        /\ seq_starts[i + 1] <= suffix
        /\ \A i2 \in 0..(Len(seq_starts) - 1) :
             seq_starts[i2 + 1] <= suffix => i2 <= i

\* C10: on a built index and for a query no longer than the max_query_len
\* the search goes by, every position locate reports names the sequence i
\* that is the largest with sequence_starts[i] <= suffix, has
\* sequence_position = suffix - sequence_starts[i], and the text there
\* starts with the query.
C10_CoordinateMapping ==
    ( /\ ret.op = "locate" /\ ret.status = "Ok"
      /\ disk \in BuiltIndices
      /\ \A j \in 1..Len(ret.args.queries) :
           WithinMql(sufr, ret.args, ret.args.queries[j]) )
    => \A j \in 1..Len(ret.value) :
         \A n \in 1..Len(ret.value[j].positions) :
           LET p == ret.value[j].positions[n]
               i == SequenceOf(sufr.sequence_starts, p.suffix)
           IN  /\ p.sequence_name = sufr.headers[i + 1]
               /\ p.sequence_position
                      = p.suffix - sufr.sequence_starts[i + 1]
               /\ StartsWith(sufr.text,
                             sufr.sequence_starts[i + 1]
                                 + p.sequence_position,
                             ret.value[j].query)

\* the request makes the effective max_query_len the build-time cap: it is
\* 0 (or absent), or at least a non-zero cap
AsksForCap(s, max_query_len) ==
    max_query_len = 0
    \/ (s.max_query_len > 0 /\ max_query_len >= s.max_query_len)

\* C12: when the effective max_query_len is the build-time cap, after
\* set_suffix_array_mem the resident SA is the whole on-disk SA in its
\* order and there are no ranks, whatever was resident before.
C12_FullSuffixArrayAtCap ==
    ( /\ ret.op = "set_suffix_array_mem" /\ ret.status = "Ok"
      /\ AsksForCap(sufr, ret.max_query_len) )
    => /\ sufr.suffix_array_mem = disk.sa
       /\ Len(sufr.suffix_array_mem) = sufr.num_suffixes
       /\ sufr.suffix_array_rank_mem = <<>>

\* C12 at work: a request as large as the cap of 2, after a compressed SA
\* was resident
C12_Witness ==
    /\ ret.op = "set_suffix_array_mem" /\ ret.max_query_len = 2
    /\ disk = IndexCapped
    /\ hist.mqls = {1}
    /\ sufr.suffix_array_mem = disk.sa
    /\ sufr.suffix_array_rank_mem = <<>>

\* C15: after a set_suffix_array_mem call whose effective max_query_len Q
\* is not the build-time cap, the resident SA and ranks are
\* subsample_suffix_array(Q), whatever calls came before.
C15_ResidentIsSubsample ==
    ( /\ ret.op = "set_suffix_array_mem" /\ ret.status = "Ok"
      /\ ~AsksForCap(sufr, ret.max_query_len) )
    => <<sufr.suffix_array_mem, sufr.suffix_array_rank_mem>>
           = subsample_suffix_array(sufr, disk,
                                    effective_mql(sufr, ret.max_query_len))

\* C16: a set_suffix_array_mem call that consults the cache directory
\* deletes a cache file older than the index, rebuilds from the SA and LCP
\* files and writes a new cache file; it loads a cache file that is not
\* older without rebuilding; it builds and writes when there is none.
C16_StaleCacheRebuilt ==
    [][ ( /\ ret.op = "none" /\ ret'.op = "set_suffix_array_mem"
          /\ "stat cache dir" \in ret'.io )
        => LET q == effective_mql(sufr, ret'.max_query_len)
               sub == subsample_suffix_array(sufr, disk, q)
               resident == <<sufr'.suffix_array_mem,
                             sufr'.suffix_array_rank_mem>>
               rebuilt ==
                   /\ {"read SA", "read LCP", "write cache file"}
                          \subseteq ret'.io
                   /\ "read cache file" \notin ret'.io
                   /\ resident = sub
                   /\ q \in DOMAIN cache_dir'
                   /\ cache_dir'[q].bytes = cache_file_bytes(sub[1], sub[2])
                   /\ cache_dir'[q].modified >= disk.mtime
           IN  /\ ret'.status = "Ok"
               /\ IF q \notin DOMAIN cache_dir
                  THEN rebuilt /\ "remove cache file" \notin ret'.io
                  ELSE IF cache_dir[q].modified < disk.mtime
                  THEN rebuilt /\ "remove cache file" \in ret'.io
                  ELSE /\ ret'.io = {"stat cache dir", "read cache file"}
                       /\ resident = cache_file_load(cache_dir[q].bytes)
                       /\ cache_dir' = cache_dir ]_vars

\* C16 at work: the cache file for max_query_len 2, older than the index
\* and made from another build, was deleted and written anew
C16_Witness ==
    /\ ret.op = "set_suffix_array_mem" /\ ret.max_query_len = 2
    /\ "remove cache file" \in ret.io
    /\ 2 \in DOMAIN cache_dir
    /\ cache_dir[2].modified >= disk.mtime
    /\ sufr.suffix_array_rank_mem = <<0, 1, 2, 4, 5>>

\* C17: the pair subsample_suffix_array(Q) installs has two vectors of one
\* length; the ranks are, in increasing order, exactly the ranks i with
\* lcp[i] < Q, and the k-th suffix is sa[ranks[k]]; this holds wherever the
\* two file handles stood before.
C17_SubsampleExact ==
    (ret.op = "set_suffix_array_mem" /\ "read LCP" \in ret.io)
    => LET q == effective_mql(sufr, ret.max_query_len)
           sa == sufr.suffix_array_mem
           ranks == sufr.suffix_array_rank_mem
       IN  /\ Len(sa) = Len(ranks)
           /\ \A k \in 1..(Len(ranks) - 1) : ranks[k] < ranks[k + 1]
           /\ { ranks[k] : k \in 1..Len(ranks) }
                  = { i \in 0..(sufr.num_suffixes - 1) : disk.lcp[i + 1] < q }
           /\ \A k \in 1..Len(ranks) : sa[k] = disk.sa[ranks[k] + 1]

\* C17 at work: a subsample for max_query_len 2 that drops rank 3
C17_Witness ==
    /\ ret.op = "set_suffix_array_mem" /\ "read LCP" \in ret.io
    /\ ret.max_query_len = 2
    /\ disk = IndexAABAB
    /\ sufr.suffix_array_rank_mem = <<0, 1, 2, 4, 5>>
    /\ sufr.suffix_array_mem = <<5, 0, 3, 4, 2>>

\* C19: a suffix_search with low_memory = true sets query_low_memory and
\* leaves the resident SA, the ranks, suffix_array_mem_mql and the cache
\* directory as they were; it does no file I/O of set_suffix_array_mem.
C19_LowMemoryFrame ==
    [][ ( /\ ret.op = "none" /\ ret'.op = "suffix_search"
          /\ ret'.args.low_memory )
        => /\ sufr'.query_low_memory
           /\ sufr'.suffix_array_mem = sufr.suffix_array_mem
           /\ sufr'.suffix_array_rank_mem = sufr.suffix_array_rank_mem
           /\ sufr'.suffix_array_mem_mql = sufr.suffix_array_mem_mql
           /\ cache_dir' = cache_dir
           /\ suffix_search(sufr, disk, cache_dir, ret'.args, ret'.order,
                            ret'.failed).io = {} ]_vars

\* C19 at work: a low-memory search on an instance that holds a compressed
\* SA from an earlier resident search
C19_Witness ==
    /\ ret.op = "suffix_search" /\ ret.args.low_memory
    /\ ret.args.max_query_len = <<1>>
    /\ sufr.query_low_memory
    /\ sufr.suffix_array_mem_mql = <<2>>
    /\ sufr.suffix_array_rank_mem # <<>>
    /\ 1 \notin DOMAIN cache_dir

\* C13: every sequence extract reports for a hit in sequence i has, with
\* relative = suffix - sequence_starts[i], p the prefix_len (0 if none) and
\* s the suffix_len: sequence_range = [max(0, relative - p),
\* min(sequence_end, relative + s)), the end being sequence_end when no
\* suffix_len is given, and suffix_offset = relative - context_start, where
\* sequence_end is sequence_starts[i+1], or text_len for the last sequence.
C13_ExtractWindows ==
    (ret.op = "extract" /\ ret.status = "Ok")
    => \A j \in 1..Len(ret.value) :
         \A n \in 1..Len(ret.value[j].sequences) :
           LET e == ret.value[j].sequences[n]
               i == SequenceOf(sufr.sequence_starts, e.suffix)
               sequence_end ==
                   IF i + 1 = Len(sufr.sequence_starts) THEN sufr.text_len
                   ELSE sufr.sequence_starts[i + 2]
               relative == e.suffix - sufr.sequence_starts[i + 1]
               p == IF ret.args.prefix_len = <<>> THEN 0
                    ELSE ret.args.prefix_len[1]
               context_start == IF relative - p > 0 THEN relative - p ELSE 0
               context_end ==
                   IF ret.args.suffix_len = <<>> THEN sequence_end
                   ELSE IF relative + ret.args.suffix_len[1] < sequence_end
                        THEN relative + ret.args.suffix_len[1]
                        ELSE sequence_end
           IN  /\ e.sequence_range = <<context_start, context_end>>
               /\ e.suffix_offset = relative - context_start

\* an extract of "A" from "AANAB$" with prefix_len 1 and suffix_len 3: the
\* hit at 0 has no byte before it (context_start saturates at 0), the hit
\* at 1 has its context cut at the end of the first sequence, and the hit
\* at 3 lies in the second sequence
C13_Witness ==
    /\ ret.op = "extract" /\ ret.status = "Ok"
    /\ disk = IndexAANAB
    /\ ret.args.prefix_len = <<1>> /\ ret.args.suffix_len = <<3>>
    /\ Len(ret.value) = 1
    /\ \E n \in 1..Len(ret.value[1].sequences) :
         LET e == ret.value[1].sequences[n]
         IN  e.suffix = 0 /\ e.sequence_range = <<0, 3>> /\ e.suffix_offset = 0
    /\ \E n \in 1..Len(ret.value[1].sequences) :
         LET e == ret.value[1].sequences[n]
         IN  e.suffix = 1 /\ e.sequence_range = <<0, 3>> /\ e.suffix_offset = 1
    /\ \E n \in 1..Len(ret.value[1].sequences) :
         LET e == ret.value[1].sequences[n]
         IN  e.suffix = 3 /\ e.sequence_name = "DEF"

\* the (rank, suffix) pairs of the records locate or extract returned for
\* the j-th query
EmittedPairs(j) ==
    LET records == IF ret.op = "locate" THEN ret.value[j].positions
                   ELSE ret.value[j].sequences
    IN  [n \in 1..Len(records) |-> <<records[n].rank, records[n].suffix>>]

\* C18: whatever the mode, for every query of a locate or an extract that
\* has matches, the reported ranks are a range left..right of ranks of
\* the on-disk SA, the suffixes reported are as many as the range is long,
\* every (rank, suffix) pair emitted has suffix = sa[rank] on disk, and
\* right - left records are emitted.
C18_RanksAndSuffixesAgree ==
    (ret.op \in {"locate", "extract"} /\ ret.status = "Ok")
    => \A j \in 1..Len(ret.found) :
         ret.found[j].locations # <<>>
         => LET locs == ret.found[j].locations[1]
                left == locs.ranks[1]
                right == locs.ranks[2]
                pairs == EmittedPairs(j)
            IN  /\ 0 <= left /\ left < right /\ right <= disk.num_suffixes
                /\ Len(locs.suffixes) = right - left
                /\ \A n \in 1..Len(pairs) :
                     /\ pairs[n][1] \in left..(right - 1)
                     /\ pairs[n][2] = disk.sa[pairs[n][1] + 1]
                /\ Len(pairs) = right - left

\* the length of the longest common prefix of text[a..] and text[b..]
LongestCommonPrefix(text, a, b) ==
    CHOOSE l \in 0..Len(text) :
        /\ \A k \in 0..(l - 1) :
             /\ a + k < Len(text) /\ b + k < Len(text)
             /\ text[a + k + 1] = text[b + k + 1]
        /\ \/ a + l >= Len(text) \/ b + l >= Len(text)
           \/ text[a + l + 1] # text[b + l + 1]

\* text[a..] is lexicographically less than text[b..], the end of the text
\* being less than any byte
SuffixLess(text, a, b) ==
    \E k \in 0..Len(text) :
        /\ \A j \in 0..(k - 1) : TextGet(text, a + j) = TextGet(text, b + j)
        /\ TextGet(text, a + k) < TextGet(text, b + k)

\* C20: check() reports no discrepancy (it returns Ok with an empty list)
\* exactly when at every rank i > 0 the stored lcp[i] is the length of the
\* longest common prefix of the suffixes at ranks i-1 and i and the suffix
\* at rank i-1 is lexicographically less than the one at rank i.
C20_CheckIffSortedWithLcp ==
    ret.op = "check"
    => ( (ret.status = "Ok" /\ ret.value = <<>>)
         <=> \A i \in 1..(disk.num_suffixes - 1) :
               /\ disk.lcp[i + 1]
                      = LongestCommonPrefix(disk.text, disk.sa[i],
                                            disk.sa[i + 1])
               /\ SuffixLess(disk.text, disk.sa[i], disk.sa[i + 1]) )

\* check() has gone through the index a build of "ABA$" writes and
\* returned the empty list
C20_Witness ==
    /\ ret.op = "check" /\ ret.status = "Ok" /\ ret.value = <<>>
    /\ disk.sa = <<3, 2, 0, 1>>
    /\ disk.lcp = <<0, 0, 1, 0>>
    /\ sufr.lcp_file.position = 4

\* the text offset of the first byte of record k (1-based): the earlier
\* records and one delimiter after each of them
RECURSIVE RecordOffset(_, _)
RecordOffset(records, k) ==
    IF k = 1 THEN 0
    ELSE RecordOffset(records, k - 1) + Len(records[k - 1].seq) + 1

\* C14: the text read_sequence_file returns is the records joined by one
\* delimiter byte with one sentinel byte at the end; there is one start
\* position per record, the first is 0, they are strictly increasing and
\* less than the text length, and the k-th is the text offset of the first
\* byte of record k.  Empty records included.
C14_TextAndStartPositions ==
    (ret.op = "read_sequence_file" /\ ret.status = "Ok")
    => LET records == disk.records
           n == Len(records)
           text == ret.value.seq
           starts == ret.value.start_positions
       IN  /\ Len(text) = RecordOffset(records, n) + Len(records[n].seq) + 1
           /\ text[Len(text)] = SENTINEL_CHARACTER
           /\ \A k \in 1..n :
                /\ \A j \in 1..Len(records[k].seq) :
                     text[RecordOffset(records, k) + j] = records[k].seq[j]
                /\ k > 1 => text[RecordOffset(records, k)]
                                = ret.sequence_delimiter
           /\ Len(starts) = n
           /\ starts[1] = 0
           /\ \A k \in 1..(n - 1) : starts[k] < starts[k + 1]
           /\ \A k \in 1..n : starts[k] < Len(text)
           /\ \A k \in 1..n : starts[k] = RecordOffset(records, k)

\* the records "AB", "" and "A" read with the delimiter 'N': the text is
\* "ABNNA$", the empty record starts at 3 and the last one at 4
C14_Witness ==
    /\ ret.op = "read_sequence_file" /\ ret.status = "Ok"
    /\ Len(disk.records) = 3 /\ disk.records[2].seq = <<>>
    /\ ret.value.seq = <<65, 66, 78, 78, 65, 36>>
    /\ ret.value.start_positions = <<0, 3, 4>>

C21_RangeInsideSequence ==
    (ret.op = "extract" /\ ret.status = "Ok")
    => \A j \in 1..Len(ret.value) :
         \A n \in 1..Len(ret.value[j].sequences) :
           LET e == ret.value[j].sequences[n]
               i == SequenceOf(sufr.sequence_starts, e.suffix)
               sequence_end ==
                   IF i + 1 = Len(sufr.sequence_starts) THEN sufr.text_len
                   ELSE sufr.sequence_starts[i + 2]
               relative == e.suffix - sufr.sequence_starts[i + 1]
               p == IF ret.args.prefix_len = <<>> THEN 0
                    ELSE ret.args.prefix_len[1]
           IN  /\ e.sequence_range[1] <= relative
               /\ relative <= e.sequence_range[2]
               /\ e.sequence_range[2]
                      <= sequence_end - sufr.sequence_starts[i + 1]
               /\ e.suffix_offset = IF p < relative THEN p ELSE relative

\* byte j (0 = least significant) of a value below 2^31
ByteOf(value, j) ==
    IF j = 0 THEN value % 256
    ELSE IF j = 1 THEN (value \div 256) % 256
    ELSE IF j = 2 THEN (value \div 65536) % 256
    ELSE IF j = 3 THEN (value \div 16777216) % 256
    ELSE 0

\* C22: for the widths 4 and 8 and every vector v, vec_to_slice_u8(v) has
\* len(v) * width bytes, the bytes of each element in order and least
\* significant first, the same bytes usize_to_bytes gives for the element
\* (its 8 bytes, least significant first), and slice_u8_to_vec of these
\* bytes and len(v) is v again.
C22_BytesRoundTrip ==
    /\ ret.op = "vec_to_slice_u8"
       => /\ Len(ret.value) = Len(disk.vec) * disk.width
          /\ \A k \in 1..Len(disk.vec) :
               \A j \in 0..(disk.width - 1) :
                 /\ ret.value[(k - 1) * disk.width + j + 1]
                        = ByteOf(disk.vec[k], j)
                 /\ ret.value[(k - 1) * disk.width + j + 1]
                        = usize_to_bytes(disk.vec[k])[j + 1]
    /\ ret.op = "usize_to_bytes"
       => /\ Len(ret.value) = SIZE_OF_USIZE
          /\ \A j \in 0..(SIZE_OF_USIZE - 1) :
               ret.value[j + 1] = ByteOf(disk.vec[ret.k], j)
    /\ ret.op = "slice_u8_to_vec" => ret.value = disk.vec

\* the vector [255, 0x7F01FFFF] of 64-bit elements has come back from its
\* 16 bytes
C22_Witness ==
    /\ ret.op = "slice_u8_to_vec"
    /\ disk.width = 8
    /\ disk.vec = <<255, 2130837503>>
    /\ ret.bytes = <<255, 0, 0, 0, 0, 0, 0, 0, 255, 255, 1, 127, 0, 0, 0, 0>>
    /\ ret.value = <<255, 2130837503>>
====
